---- MODULE Spec2Model ----
(***************************************************************************)
(* A model of scripts/performance/extension-impact.js: the benchmark sweep *)
(* that backs up the browser example's package.json, adds one extension at *)
(* a time, rebuilds, measures the startup time and prints one row per      *)
(* trial.                                                                  *)
(*                                                                         *)
(* Text is a sequence of one-character strings.  A Buffer is a sequence of *)
(* bytes; an ASCII character is one byte (written as the character), the   *)
(* non-ASCII character written "E9" (U+00E9) is the two UTF-8 bytes "C3"   *)
(* "A9".  Indices are the 0-based indices of JavaScript.  A JavaScript     *)
(* value that may be a number is a record: Num(n) is the number n / 1000   *)
(* (Num(2500) is 2.5), NaN and Undefined are the two other values.         *)
(***************************************************************************)
EXTENDS Integers, Sequences, FiniteSets, TLC

VARIABLES
    args,           \* the parsed command line (yargs), fixed at start
    rejMode,        \* what the runtime does with an unhandled rejection
    runs,           \* line 20
    baseTime,       \* line 21
    extensions,     \* line 22, and the parameter of extensionImpact
    yarn,           \* line 23
    pc,             \* where the main flow stands
    i,              \* index of the extension the for loop is at
    live,           \* content of ../../examples/browser/package.json
    backup,         \* ./backup-package.json: whether it exists, and its content
    requireCache,   \* require.cache entry of the live manifest
    copyQueued,     \* copyFile requests the thread pool has not carried out
    copyDone,       \* copyFile requests carried out, callback not yet run
    mkdirPending,   \* mkdirp is under way or its callback has not run
    rows,           \* lines printed by console.log
    stderr,         \* lines printed by console.error
    sigint,         \* "none", "pending" (delivered, not handled), "handled"
    unhandled,      \* a rejected promise nobody handles is waiting
    exitCode,       \* the exit status, once the process is exiting
    threw,          \* the first execSync / readdirSync failure of the flow
    nBackupWrites,  \* writes of the backup file
    nRestores,      \* copies of the backup over the live manifest
    nUnlinks,       \* deletions of the backup file
    nMutations,     \* writeFileSync calls
    nBuilds,        \* build commands started
    nMeasures,      \* measurement commands started
    measured,       \* the locals mean and stdev of calculateExtension (lines 158-159)
    fin,            \* input handed to a pure function (SpecParse, SpecQual)
    fout            \* what the function returned for it

flowVars == <<args, rejMode, runs, baseTime, extensions, yarn, pc, i, requireCache,
              rows, stderr, unhandled, exitCode, threw, nMutations, nBuilds, nMeasures,
              measured>>
fileVars == <<live, backup, nBackupWrites, nRestores, nUnlinks>>
poolVars == <<copyQueued, copyDone, mkdirPending>>
pureVars == <<fin, fout>>
vars == <<flowVars, fileVars, poolVars, sigint, pureVars>>

Num(n) == [t |-> "number", v |-> n]
NaN == [t |-> "NaN", v |-> 0]
Undefined == [t |-> "undefined", v |-> 0]

----------------------------------------------------------------------------
(* JavaScript string and Buffer primitives used by the script.             *)

Min(a, b) == IF a < b THEN a ELSE b
Max(a, b) == IF a < b THEN b ELSE a

\* The positions (0-based) at which pat occurs in s.
Occurrences(s, pat) ==
    {k \in 0..(Len(s) - Len(pat)) : SubSeq(s, k + 1, k + Len(pat)) = pat}

\* String.prototype.lastIndexOf(pat) and Buffer.prototype.lastIndexOf(pat).
LastIndexOf(s, pat) ==
    LET occ == Occurrences(s, pat)
    IN  IF occ = {} THEN -1 ELSE CHOOSE k \in occ : \A j \in occ : j <= k

\* Buffer.prototype.indexOf(pat, byteOffset) for byteOffset >= 0.
IndexOf(s, pat, from) ==
    LET occ == {k \in Occurrences(s, pat) : k >= from}
    IN  IF occ = {} THEN -1 ELSE CHOOSE k \in occ : \A j \in occ : k <= j

\* String.prototype.substring(a, b): both ends are clamped to 0..length and
\* swapped when a > b.
Substring(s, a, b) ==
    LET ca == Max(0, Min(a, Len(s)))
        cb == Max(0, Min(b, Len(s)))
    IN  SubSeq(s, Min(ca, cb) + 1, Max(ca, cb))

\* String.prototype.replace(/"/g, '').
RECURSIVE StripQuotes(_)
StripQuotes(s) ==
    IF s = <<>> THEN <<>>
    ELSE IF Head(s) = "\"" THEN StripQuotes(Tail(s))
    ELSE <<Head(s)>> \o StripQuotes(Tail(s))

\* UTF-8: the bytes of a string, and Buffer.prototype.toString().  Both
\* work on the two halves of their argument; a half never ends between the
\* two bytes of a character.
RECURSIVE Encode(_)
Encode(s) ==
    IF Len(s) = 0 THEN <<>>
    ELSE IF Len(s) = 1 THEN (IF s[1] = "E9" THEN <<"C3", "A9">> ELSE s)
    ELSE Encode(SubSeq(s, 1, Len(s) \div 2)) \o Encode(SubSeq(s, Len(s) \div 2 + 1, Len(s)))

RECURSIVE Decode(_)
Decode(b) ==
    IF Len(b) = 0 THEN <<>>
    ELSE IF Len(b) = 1 THEN (IF b[1] \in {"C3", "A9"} THEN <<"FFFD">> ELSE b)
    ELSE IF Len(b) = 2 /\ b = <<"C3", "A9">> THEN <<"E9">>
    ELSE LET h == Len(b) \div 2
             m == IF b[h] = "C3" /\ b[h + 1] = "A9" THEN h + 1 ELSE h
         IN  Decode(SubSeq(b, 1, m)) \o Decode(SubSeq(b, m + 1, Len(b)))

Digits == <<"0", "1", "2", "3", "4", "5", "6", "7", "8", "9">>
IsDigit(c) == \E d \in 1..10 : Digits[d] = c
DigitVal(c) == (CHOOSE d \in 1..10 : Digits[d] = c) - 1
IsSpace(c) == c \in {" ", "\n", "\t"}

RECURSIVE TrimLeft(_)
TrimLeft(s) == IF s # <<>> /\ IsSpace(Head(s)) THEN TrimLeft(Tail(s)) ELSE s

\* The length of the run of digits s starts with.
RECURSIVE DigitRun(_)
DigitRun(s) == IF s # <<>> /\ IsDigit(Head(s)) THEN 1 + DigitRun(Tail(s)) ELSE 0

RECURSIVE IntVal(_)
IntVal(s) == IF s = <<>> THEN 0 ELSE IntVal(SubSeq(s, 1, Len(s) - 1)) * 10 + DigitVal(s[Len(s)])

\* The thousandths a run of fraction digits stands for (digits past the third
\* are below the resolution of the model).
FracVal(s) ==
    LET d(k) == IF k <= Len(s) THEN DigitVal(s[k]) ELSE 0
    IN  d(1) * 100 + d(2) * 10 + d(3)

\* parseFloat: white space is skipped, the longest prefix that is a decimal
\* literal (sign, digits, fraction) is converted, whatever follows is
\* ignored, and NaN is returned when there is no such prefix.
parseFloat(s) ==
    LET t == TrimLeft(s)
        signed == t # <<>> /\ Head(t) \in {"-", "+"}
        u == IF signed THEN Tail(t) ELSE t
        k == DigitRun(u)
        rest == SubSeq(u, k + 1, Len(u))
        f == IF rest # <<>> /\ Head(rest) = "." THEN DigitRun(Tail(rest)) ELSE 0
        mag == IntVal(SubSeq(u, 1, k)) * 1000 + FracVal(SubSeq(rest, 2, f + 1))
    IN  IF k = 0 /\ f = 0 THEN NaN
        ELSE IF signed /\ Head(t) = "-" THEN Num(0 - mag) ELSE Num(mag)

isNaN(x) == x = NaN

\* The decimal digits of a natural number.
RECURSIVE NatStr(_)
NatStr(n) == IF n < 10 THEN <<Digits[n + 1]>> ELSE NatStr(n \div 10) \o <<Digits[(n % 10) + 1]>>

\* Number.prototype.toFixed(3) of a number counted in thousandths.
toFixed3(n) ==
    LET a == IF n < 0 THEN 0 - n ELSE n
        r == a % 1000
    IN  (IF n < 0 THEN <<"-">> ELSE <<>>) \o NatStr(a \div 1000) \o <<".">>
        \o <<Digits[(r \div 100) + 1], Digits[((r \div 10) % 10) + 1], Digits[(r % 10) + 1]>>

----------------------------------------------------------------------------
(* The result parser.                                                      *)

MeanMarker == <<"[", "M", "E", "A", "N", "]", " ", "L", "a", "r", "g", "e", "s", "t", " ", "C", "o", "n", "t", "e", "n", "t", "f", "u", "l", " ", "P", "a", "i", "n", "t", " ", "(", "L", "C", "P", ")", ":">>
StdevMarker == <<"[", "S", "T", "D", "E", "V", "]", " ", "L", "a", "r", "g", "e", "s", "t", " ", "C", "o", "n", "t", "e", "n", "t", "f", "u", "l", " ", "P", "a", "i", "n", "t", " ", "(", "L", "C", "P", ")", ":">>
Seconds == <<"s", "e", "c", "o", "n", "d", "s">>

\* getMeasurement(output, identifier): output is the Buffer execSync
\* returned, so both searches count bytes, while the substring is taken from
\* the decoded string.
getMeasurement(output, identifier) ==
    LET firstIndex == LastIndexOf(output, Encode(identifier)) + Len(identifier) + 1
        lastIndex == IndexOf(output, Encode(Seconds), firstIndex) - 1
    IN  Substring(Decode(output), firstIndex, lastIndex)

\* calculateExtension, lines 158-159: the two numbers read from the output.
Measured(output) ==
    [mean  |-> parseFloat(getMeasurement(output, MeanMarker)),
     stdev |-> parseFloat(getMeasurement(output, StdevMarker))]

ErrorText == <<"E", "r", "r", "o", "r", " ", "w", "h", "i", "l", "e", " ", "m", "e", "a", "s", "u", "r", "i", "n", "g", " ", "w", "i", "t", "h", " ", "t", "h", "i", "s", " ", "e", "x", "t", "e", "n", "s", "i", "o", "n">>
Dash == <<"-">>

\* The integer nearest to num / den, the larger one on a tie (toFixed).
RoundDiv(num, den) ==
    IF den > 0 THEN (2 * num + den) \div (2 * den)
    ELSE (2 * (0 - num) + (0 - den)) \div (2 * (0 - den))

\* ((stdev / mean) * 100).toFixed(3)
cvText(mean, stdev) ==
    IF mean = 0
    THEN (IF stdev = 0 THEN <<"N", "a", "N">>
          ELSE (IF stdev < 0 THEN <<"-">> ELSE <<>>)
               \o <<"I", "n", "f", "i", "n", "i", "t", "y">>)
    ELSE LET n == RoundDiv(stdev * 100000, mean)
         IN  (IF n = 0 /\ stdev * mean < 0 THEN <<"-">> ELSE <<>>) \o toFixed3(n)

\* Report with the baseline reassigned by every successful trial.
ReportRebasing(label, m, bt) ==
    IF isNaN(m.mean) \/ isNaN(m.stdev)
    THEN [row |-> [kind |-> "error", label |-> label, mean |-> ErrorText,
                   stdev |-> Dash, cv |-> Dash, diff |-> Dash],
          baseTime |-> bt]
    ELSE [row |-> [kind |-> "number", label |-> label, mean |-> toFixed3(m.mean.v),
                   stdev |-> toFixed3(m.stdev.v), cv |-> cvText(m.mean.v, m.stdev.v),
                   diff |-> IF bt = Undefined THEN Dash ELSE toFixed3(m.mean.v - bt.v)],
          baseTime |-> m.mean]

\* Report with the baseline taken from a trial before the NaN test.
ReportBaselineBeforeTest(label, m, bt) ==
    IF isNaN(m.mean) \/ isNaN(m.stdev)
    THEN [row |-> [kind |-> "error", label |-> label, mean |-> ErrorText,
                   stdev |-> Dash, cv |-> Dash, diff |-> Dash],
          baseTime |-> IF bt = Undefined THEN m.mean ELSE bt]
    ELSE [row |-> [kind |-> "number", label |-> label, mean |-> toFixed3(m.mean.v),
                   stdev |-> toFixed3(m.stdev.v), cv |-> cvText(m.mean.v, m.stdev.v),
                   diff |-> IF bt = Undefined THEN Dash ELSE toFixed3(m.mean.v - bt.v)],
          baseTime |-> IF bt = Undefined THEN m.mean ELSE bt]

\* calculateExtension, lines 161-173: the row printed for a trial, and the
\* baseline after it.
Report(label, m, bt) ==
    IF isNaN(m.mean) \/ isNaN(m.stdev)
    THEN [row |-> [kind |-> "error", label |-> label, mean |-> ErrorText,
                   stdev |-> Dash, cv |-> Dash, diff |-> Dash],
          baseTime |-> bt]
    ELSE [row |-> [kind |-> "number", label |-> label, mean |-> toFixed3(m.mean.v),
                   stdev |-> toFixed3(m.stdev.v), cv |-> cvText(m.mean.v, m.stdev.v),
                   diff |-> IF bt = Undefined THEN Dash ELSE toFixed3(m.mean.v - bt.v)],
          baseTime |-> IF bt = Undefined THEN m.mean ELSE bt]

----------------------------------------------------------------------------
(* Extension qualifiers.                                                   *)

Quote(s) == <<"\"">> \o s \o <<"\"">>

\* getPackagesExtensions, lines 136-138.
Qualifier(name, version) == Quote(name) \o <<":", " ">> \o Quote(version)

\* calculateExtension, lines 145-147.
QualifierName(extensionQualifier) ==
    LET qualifier == StripQuotes(extensionQualifier)
    IN  Substring(qualifier, 0, LastIndexOf(qualifier, <<":">>))

QualifierVersion(extensionQualifier) ==
    LET qualifier == StripQuotes(extensionQualifier)
    IN  Substring(qualifier, LastIndexOf(qualifier, <<":">>) + 1, Len(qualifier))

----------------------------------------------------------------------------
(* The files and the command line.                                         *)

\* A manifest is its dependencies: a set of <<name, version>> entries.
Entry(name, version) == <<name, version>>
Core == Entry(<<"c">>, <<"1">>)

\* ./base-package.json, supplied with the script.
BaseManifest == {Core}
\* ../../examples/browser/package.json as it is before the run.
OrigManifest == {Core, Entry(<<"a">>, <<"1">>), Entry(<<"b">>, <<"2">>)}
\* A ./backup-package.json that an earlier, killed run left behind.
StaleManifest == {Entry(<<"c">>, <<"0">>)}

NoFile == [exists |-> FALSE, content |-> {}]
File(c) == [exists |-> TRUE, content |-> c]

\* package.dependencies[name] = version
SetDependency(deps, name, version) ==
    {e \in deps : e[1] # name} \cup {Entry(name, version)}

\* The number of extensions of a sweep.
MaxExt == 2

\* The package.json files under ../../packages, "core" left out.
AllPackages ==
    <<[name |-> <<"a">>, version |-> <<"1">>], [name |-> <<"b">>, version |-> <<"2">>],
      [name |-> <<"d">>, version |-> <<"3">>], [name |-> <<"f">>, version |-> <<"4">>]>>
PackagesDir == SubSeq(AllPackages, 1, Min(MaxExt, Len(AllPackages)))

getPackagesExtensions ==
    [k \in 1..Len(PackagesDir) |-> Qualifier(PackagesDir[k].name, PackagesDir[k].version)]

\* --extensions: absent, or the first k qualifiers.
ArgExtensions ==
    {[given |-> FALSE, list |-> <<>>]}
    \cup {[given |-> TRUE, list |-> SubSeq(getPackagesExtensions, 1, k)] :
            k \in 1..Len(PackagesDir)}

\* --base-time, counted in ten-thousandths: absent, 0, 2.0004.
ArgBaseTimes == {Undefined, Num(0), Num(20004)}
\* --runs: absent, 0, 1, 2, -1.
ArgRuns == {Undefined, Num(0), Num(1000), Num(2000), Num(-1000)}

\* The command lines tried.  Lines 59-77 handle each option on its own, so
\* --yarn and --runs are each tried with the other options left out, and
\* --base-time is tried with every --extensions.
ArgSpace ==
    {a \in [baseTime : ArgBaseTimes, runs : ArgRuns,
            extensions : ArgExtensions, yarn : BOOLEAN] :
        /\ a.yarn => (a.baseTime = Undefined /\ a.runs = Undefined /\ ~a.extensions.given)
        /\ a.runs # Undefined => (a.baseTime = Undefined /\ ~a.extensions.given)}

\* if (x) for a value that is undefined or a number.
Truthy(x) == x.t = "number" /\ x.v # 0

\* parseInt(x.toString()) of a number: the fraction is dropped.
parseInt(x) ==
    IF x.v >= 0 THEN Num((x.v \div 1000) * 1000) ELSE Num(0 - (((0 - x.v) \div 1000) * 1000))

\* parseFloat(x.toString()).toFixed(3) of a number counted in ten-thousandths,
\* as the number the string converts back to in mean - baseTime.
baseTimeOption(x) == Num(RoundDiv(x.v, 10))

Line(marker, value) == marker \o <<" ">> \o value \o <<" ">> \o Seconds \o <<"\n">>

\* What the measurement command may print during a sweep: two results (one
\* with a mean of 0), nothing of use, and a result without a standard
\* deviation.
MeasureOutputs ==
    {Encode(Line(MeanMarker, <<"2", ".", "5", "0", "0">>)
            \o Line(StdevMarker, <<"0", ".", "1", "0", "0">>)),
     Encode(Line(MeanMarker, <<"0", ".", "0", "0", "0">>)
            \o Line(StdevMarker, <<"0", ".", "3", "0", "0">>)),
     Encode(<<"x">>),
     Encode(Line(MeanMarker, <<"3", ".", "0", "0", "0">>)
            \o Line(StdevMarker, <<"a", "b", "c">>))}

\* execSync of the measurement: it throws, or it returns the output.
MeasureOutcomes ==
    {[throws |-> TRUE, output |-> <<>>]}
    \cup {[throws |-> FALSE, output |-> o] : o \in MeasureOutputs}

\* mean and stdev outside calculateExtension, or when execSync threw.
NotMeasured == [mean |-> Undefined, stdev |-> Undefined]

BaseTheia == <<"B", "a", "s", "e", " ", "T", "h", "e", "i", "a">>
BaseTheiaProvided == <<"B", "a", "s", "e", " ", "T", "h", "e", "i", "a", " ", "(", "p", "r", "o", "v", "i", "d", "e", "d", ")">>

HeaderRow(r) ==
    [kind |-> "header", label |-> <<>>, mean |-> NatStr(r.v \div 1000),
     stdev |-> <<>>, cv |-> <<>>, diff |-> <<>>]
ProvidedRow(bt) ==
    [kind |-> "provided", label |-> BaseTheiaProvided, mean |-> toFixed3(bt.v),
     stdev |-> Dash, cv |-> Dash, diff |-> Dash]

----------------------------------------------------------------------------
(* The sweep.                                                              *)

Init ==
    /\ args \in ArgSpace
    /\ rejMode \in {"throw", "warn"}
    /\ runs = Num(10000)
    /\ baseTime = Undefined
    /\ extensions = <<>>
    /\ yarn = FALSE
    /\ pc = "start"
    /\ i = 0
    /\ live = OrigManifest
    /\ backup \in {NoFile, File(StaleManifest)}
    /\ requireCache = NoFile
    /\ copyQueued = 0
    /\ copyDone = 0
    /\ mkdirPending = FALSE
    /\ rows = <<>>
    /\ stderr = <<>>
    /\ sigint = "none"
    /\ unhandled = FALSE
    /\ exitCode = -1
    /\ threw = "none"
    /\ nBackupWrites = 0
    /\ nRestores = 0
    /\ nUnlinks = 0
    /\ nMutations = 0
    /\ nBuilds = 0
    /\ nMeasures = 0
    /\ measured = NotMeasured
    /\ fin = <<>>
    /\ fout = <<>>

\* Lines 59-77: the options are copied to the globals; runs < 2 returns.
Start ==
    /\ pc = "start"
    /\ baseTime' = IF Truthy(args.baseTime) THEN baseTimeOption(args.baseTime) ELSE baseTime
    /\ extensions' = IF args.extensions.given THEN args.extensions.list ELSE extensions
    /\ runs' = IF Truthy(args.runs) THEN parseInt(args.runs) ELSE runs
    /\ IF Truthy(args.runs) /\ parseInt(args.runs).v < 2000
       THEN /\ stderr' = Append(stderr, "--runs must be at least 2")
            /\ yarn' = yarn
            /\ pc' = "settled"
       ELSE /\ stderr' = stderr
            /\ yarn' = (yarn \/ args.yarn)
            /\ pc' = "prepare"
    /\ UNCHANGED <<args, rejMode, i, requireCache, rows, unhandled, exitCode, threw,
                   nMutations, nBuilds, nMeasures, measured, fileVars, poolVars, sigint, pureVars>>

\* copyBasePackage, lines 120-126: the copy is handed to the thread pool.
copyBasePackage == copyQueued' = copyQueued + 1

\* prepareWorkspace, lines 105-113.
PrepareWorkspace ==
    /\ pc = "prepare"
    /\ backup' = File(live)
    /\ nBackupWrites' = nBackupWrites + 1
    /\ copyBasePackage
    /\ mkdirPending' = TRUE
    /\ pc' = "initialBuild"
    /\ UNCHANGED <<args, rejMode, runs, baseTime, extensions, yarn, i, requireCache, rows,
                   stderr, unhandled, exitCode, threw, nMutations, nBuilds, nMeasures, measured,
                   live, nRestores, nUnlinks, copyDone, sigint, pureVars>>

\* Lines 79-83: execSync of the build; a non-zero exit throws out of main.
InitialBuild ==
    /\ pc = "initialBuild"
    /\ nBuilds' = nBuilds + 1
    /\ \E ok \in BOOLEAN :
        IF ok THEN pc' = "header" /\ UNCHANGED <<threw, unhandled>>
        ELSE pc' = "settled" /\ threw' = "build" /\ unhandled' = TRUE
    /\ UNCHANGED <<args, rejMode, runs, baseTime, extensions, yarn, i, requireCache, rows,
                   stderr, exitCode, nMutations, nMeasures, measured, fileVars, poolVars, sigint,
                   pureVars>>

\* extensionImpact, lines 88-93.
Header ==
    /\ pc = "header"
    /\ IF baseTime = Undefined
       THEN rows' = Append(rows, HeaderRow(runs)) /\ pc' = "baseline"
       ELSE rows' = rows \o <<HeaderRow(runs), ProvidedRow(baseTime)>> /\ pc' = "enumerate"
    /\ UNCHANGED <<args, rejMode, runs, baseTime, extensions, yarn, i, requireCache,
                   stderr, unhandled, exitCode, threw, nMutations, nBuilds, nMeasures, measured,
                   fileVars, poolVars, sigint, pureVars>>

\* Line 90: calculateExtension(undefined), lines 153-173; the promise it
\* returns is not awaited, so a throw of execSync does not stop the caller.
Baseline ==
    /\ pc = "baseline"
    /\ nMeasures' = nMeasures + 1
    /\ \E o \in MeasureOutcomes :
        IF o.throws
        THEN unhandled' = TRUE /\ measured' = NotMeasured /\ UNCHANGED <<rows, baseTime>>
        ELSE LET r == Report(BaseTheia, Measured(o.output), baseTime)
             IN  /\ rows' = Append(rows, r.row) /\ baseTime' = r.baseTime
                 /\ measured' = Measured(o.output)
                 /\ UNCHANGED unhandled
    /\ pc' = "enumerate"
    /\ UNCHANGED <<args, rejMode, runs, extensions, yarn, i, requireCache, stderr, exitCode,
                   threw, nMutations, nBuilds, fileVars, poolVars, sigint, pureVars>>

\* Lines 95-99: the packages are listed when no extension was given
\* (readdirSync or require may throw), and the loop is entered.
Enumerate ==
    /\ pc = "enumerate"
    /\ measured' = NotMeasured
    /\ \E ok \in BOOLEAN :
        IF Len(extensions) < 1 /\ ~ok
        THEN /\ threw' = "enumerate" /\ unhandled' = TRUE
             /\ pc' = "settled"
             /\ UNCHANGED <<extensions, i>>
        ELSE /\ extensions' = IF Len(extensions) < 1 THEN getPackagesExtensions ELSE extensions
             /\ i' = 1
             /\ pc' = IF Len(extensions') >= 1 THEN "mutate" ELSE "settled"
             /\ UNCHANGED <<threw, unhandled>>
    /\ UNCHANGED <<args, rejMode, runs, baseTime, yarn, requireCache, rows, stderr, exitCode,
                   nMutations, nBuilds, nMeasures, fileVars, poolVars, sigint, pureVars>>

\* Line 148: the first require reads the file; later ones return the cached
\* object.
Require ==
    /\ pc = "mutate"
    /\ ~requireCache.exists
    /\ requireCache' = File(live)
    /\ UNCHANGED <<args, rejMode, runs, baseTime, extensions, yarn, pc, i, rows, stderr,
                   unhandled, exitCode, threw, nMutations, nBuilds, nMeasures, measured, fileVars,
                   poolVars, sigint, pureVars>>

\* Lines 145-150: the dependency is set on the cached object, which is
\* written to the live manifest.
WriteManifest ==
    /\ pc = "mutate"
    /\ requireCache.exists
    /\ LET deps == SetDependency(requireCache.content, QualifierName(extensions[i]),
                                 QualifierVersion(extensions[i]))
       IN  requireCache' = File(deps) /\ live' = deps
    /\ nMutations' = nMutations + 1
    /\ pc' = "build"
    /\ UNCHANGED <<args, rejMode, runs, baseTime, extensions, yarn, i, rows, stderr,
                   unhandled, exitCode, threw, nBuilds, nMeasures, measured, backup, nBackupWrites,
                   nRestores, nUnlinks, poolVars, sigint, pureVars>>

\* Line 151.
Build ==
    /\ pc = "build"
    /\ nBuilds' = nBuilds + 1
    /\ \E ok \in BOOLEAN :
        IF ok THEN pc' = "measure" /\ UNCHANGED <<threw, unhandled>>
        ELSE pc' = "settled" /\ threw' = "build" /\ unhandled' = TRUE
    /\ UNCHANGED <<args, rejMode, runs, baseTime, extensions, yarn, i, requireCache, rows,
                   stderr, exitCode, nMutations, nMeasures, measured, fileVars, poolVars, sigint,
                   pureVars>>

\* Lines 155-173 for an extension.
Measure ==
    /\ pc = "measure"
    /\ nMeasures' = nMeasures + 1
    /\ \E o \in MeasureOutcomes :
        IF o.throws
        THEN /\ pc' = "settled" /\ threw' = "measure" /\ unhandled' = TRUE
             /\ measured' = NotMeasured
             /\ UNCHANGED <<rows, baseTime>>
        ELSE LET r == Report(extensions[i], Measured(o.output), baseTime)
             IN  /\ rows' = Append(rows, r.row) /\ baseTime' = r.baseTime
                 /\ measured' = Measured(o.output)
                 /\ pc' = "reset"
                 /\ UNCHANGED <<threw, unhandled>>
    /\ UNCHANGED <<args, rejMode, runs, extensions, yarn, i, requireCache, stderr, exitCode,
                   nMutations, nBuilds, fileVars, poolVars, sigint, pureVars>>

\* Lines 101-102: the reset is issued and the loop goes on.
Reset ==
    /\ pc = "reset"
    /\ measured' = NotMeasured
    /\ copyBasePackage
    /\ i' = i + 1
    /\ pc' = IF i < Len(extensions) THEN "mutate" ELSE "settled"
    /\ UNCHANGED <<args, rejMode, runs, baseTime, extensions, yarn, requireCache, rows,
                   stderr, unhandled, exitCode, threw, nMutations, nBuilds, nMeasures,
                   fileVars, copyDone, mkdirPending, sigint, pureVars>>

----------------------------------------------------------------------------
(* The runtime: rejections, the event loop, the thread pool, exit.         *)

\* cleanWorkspace, lines 115-118.  copyFileSync throws when there is no
\* backup file, or when the file system refuses the copy (refused); nothing
\* is changed then, and the promise of cleanWorkspace is rejected.
cleanWorkspaceThrows(refused) == ~backup.exists \/ refused

\* cleanWorkspace with a copy that, finding no backup file, leaves an empty
\* live manifest behind before it throws.
cleanWorkspaceTruncating(refused) ==
    IF ~backup.exists
    THEN live' = {} /\ UNCHANGED <<backup, nBackupWrites, nRestores, nUnlinks>>
    ELSE IF refused
    THEN UNCHANGED fileVars
    ELSE /\ live' = backup.content
         /\ backup' = NoFile
         /\ nRestores' = nRestores + 1
         /\ nUnlinks' = nUnlinks + 1
         /\ UNCHANGED nBackupWrites

cleanWorkspace(refused) ==
    IF cleanWorkspaceThrows(refused)
    THEN UNCHANGED fileVars
    ELSE /\ live' = backup.content
         /\ backup' = NoFile
         /\ nRestores' = nRestores + 1
         /\ nUnlinks' = nUnlinks + 1
         /\ UNCHANGED nBackupWrites

\* The thread pool carries out a queued copyFile of the base manifest, at
\* any moment while the process lives.
CopyWrite ==
    /\ copyQueued > 0
    /\ pc # "terminated"
    /\ live' = BaseManifest
    /\ copyQueued' = copyQueued - 1
    /\ copyDone' = copyDone + 1
    /\ UNCHANGED <<flowVars, backup, nBackupWrites, nRestores, nUnlinks, mkdirPending,
                   sigint, pureVars>>

\* SIGINT is delivered to the process; the handler runs from the event loop.
SigintArrives ==
    /\ sigint = "none"
    /\ pc \notin {"exiting", "terminated", "parse", "qualifier"}
    /\ sigint' = "pending"
    /\ UNCHANGED <<flowVars, fileVars, poolVars, pureVars>>

\* The main flow has returned or thrown and no promise was left rejected.
SettledQuiet ==
    /\ pc = "settled"
    /\ ~unhandled
    /\ pc' = "eventLoop"
    /\ UNCHANGED <<args, rejMode, runs, baseTime, extensions, yarn, i, requireCache, rows,
                   stderr, unhandled, exitCode, threw, nMutations, nBuilds, nMeasures, measured,
                   fileVars, poolVars, sigint, pureVars>>

\* An unhandled rejection under a runtime that only warns about it.
RejectionWarn ==
    /\ pc = "settled"
    /\ unhandled
    /\ rejMode = "warn"
    /\ unhandled' = FALSE
    /\ pc' = "eventLoop"
    /\ UNCHANGED <<args, rejMode, runs, baseTime, extensions, yarn, i, requireCache, rows,
                   stderr, exitCode, threw, nMutations, nBuilds, nMeasures, measured, fileVars,
                   poolVars, sigint, pureVars>>

\* An unhandled rejection under a runtime that raises it as an uncaught
\* exception: exit code 1, and the 'exit' listener (lines 26-29, 33) runs.
RejectionCrash ==
    /\ pc = "settled"
    /\ unhandled
    /\ rejMode = "throw"
    /\ unhandled' = FALSE
    /\ exitCode' = 1
    /\ \E refused \in BOOLEAN : cleanWorkspace(refused)
    /\ pc' = "exiting"
    /\ UNCHANGED <<args, rejMode, runs, baseTime, extensions, yarn, i, requireCache, rows,
                   stderr, threw, nMutations, nBuilds, nMeasures, measured, poolVars, sigint,
                   pureVars>>

\* The event loop stays alive while a request is pending (the signal
\* handle is not counted).
LoopAlive == copyQueued + copyDone > 0 \/ mkdirPending

\* Lines 122-124: the callback of a finished copyFile.
CopyCallback ==
    /\ pc = "eventLoop"
    /\ copyDone > 0
    /\ copyDone' = copyDone - 1
    /\ UNCHANGED <<flowVars, fileVars, copyQueued, mkdirPending, sigint, pureVars>>

\* Lines 108-112: the callback of mkdirp.
MkdirpCallback ==
    /\ pc = "eventLoop"
    /\ mkdirPending
    /\ mkdirPending' = FALSE
    /\ UNCHANGED <<flowVars, fileVars, copyQueued, copyDone, sigint, pureVars>>

\* Lines 26-27 on SIGINT: cleanWorkspace runs; when it throws, the await
\* rejects and line 28 is not reached.
SigintHandler ==
    /\ pc = "eventLoop"
    /\ LoopAlive
    /\ sigint = "pending"
    /\ sigint' = "handled"
    /\ \E refused \in BOOLEAN :
        /\ cleanWorkspace(refused)
        /\ IF cleanWorkspaceThrows(refused)
           THEN pc' = "settled" /\ unhandled' = TRUE
           ELSE pc' = "processExit" /\ UNCHANGED unhandled
    /\ UNCHANGED <<args, rejMode, runs, baseTime, extensions, yarn, i, requireCache, rows,
                   stderr, exitCode, threw, nMutations, nBuilds, nMeasures, measured, poolVars,
                   pureVars>>

\* Line 28 after the await: process.exit() emits 'exit', whose listener runs
\* cleanWorkspace once more.
ProcessExit ==
    /\ pc = "processExit"
    /\ exitCode' = 0
    /\ \E refused \in BOOLEAN : cleanWorkspace(refused)
    /\ pc' = "exiting"
    /\ UNCHANGED <<args, rejMode, runs, baseTime, extensions, yarn, i, requireCache, rows,
                   stderr, unhandled, threw, nMutations, nBuilds, nMeasures, measured, poolVars,
                   sigint, pureVars>>

\* Nothing keeps the loop alive: 'exit' is emitted and its listener runs.
ExitEvent ==
    /\ pc = "eventLoop"
    /\ ~LoopAlive
    /\ exitCode' = 0
    /\ \E refused \in BOOLEAN : cleanWorkspace(refused)
    /\ pc' = "exiting"
    /\ UNCHANGED <<args, rejMode, runs, baseTime, extensions, yarn, i, requireCache, rows,
                   stderr, unhandled, threw, nMutations, nBuilds, nMeasures, measured, poolVars,
                   sigint, pureVars>>

\* The process is gone, and with it the threads of the pool.
Terminate ==
    /\ pc = "exiting"
    /\ pc' = "terminated"
    /\ UNCHANGED <<args, rejMode, runs, baseTime, extensions, yarn, i, requireCache, rows,
                   stderr, unhandled, exitCode, threw, nMutations, nBuilds, nMeasures, measured,
                   fileVars, poolVars, sigint, pureVars>>

Next ==
    \/ Start
    \/ PrepareWorkspace
    \/ InitialBuild
    \/ Header
    \/ Baseline
    \/ Enumerate
    \/ Require
    \/ WriteManifest
    \/ Build
    \/ Measure
    \/ Reset
    \/ CopyWrite
    \/ SigintArrives
    \/ SettledQuiet
    \/ RejectionWarn
    \/ RejectionCrash
    \/ CopyCallback
    \/ MkdirpCallback
    \/ SigintHandler
    \/ ProcessExit
    \/ ExitEvent
    \/ Terminate

Spec == Init /\ [][Next]_vars

\* The script started without options, under a runtime and a thread pool
\* that keep running: whatever step is possible is taken in the end.
InitDefault ==
    /\ Init
    /\ args = [baseTime |-> Undefined, runs |-> Undefined,
               extensions |-> [given |-> FALSE, list |-> <<>>], yarn |-> FALSE]

SpecFair == InitDefault /\ [][Next]_vars /\ WF_vars(Next)

----------------------------------------------------------------------------
(* The result parser and the qualifier parsing, each on its own inputs.    *)

\* The main flow is not started under SpecParse and SpecQual.
Idle(at) ==
    /\ args = [baseTime |-> Undefined, runs |-> Undefined,
               extensions |-> [given |-> FALSE, list |-> <<>>], yarn |-> FALSE]
    /\ rejMode = "throw"
    /\ runs = Num(10000)
    /\ baseTime = Undefined
    /\ extensions = <<>>
    /\ yarn = FALSE
    /\ pc = at
    /\ i = 0
    /\ live = OrigManifest
    /\ backup = NoFile
    /\ requireCache = NoFile
    /\ copyQueued = 0
    /\ copyDone = 0
    /\ mkdirPending = FALSE
    /\ rows = <<>>
    /\ stderr = <<>>
    /\ sigint = "none"
    /\ unhandled = FALSE
    /\ exitCode = -1
    /\ threw = "none"
    /\ nBackupWrites = 0
    /\ nRestores = 0
    /\ nUnlinks = 0
    /\ nMutations = 0
    /\ nBuilds = 0
    /\ nMeasures = 0
    /\ measured = NotMeasured

\* The pieces a captured output is made of: lines of the measurement tool,
\* a marker that is followed by nothing, and other text.
Segment(k, v, b) == [kind |-> k, value |-> v, bytes |-> b]
Segments ==
    {Segment("mean", v, Encode(Line(MeanMarker, v))) :
        v \in {<<"2", ".", "5", "0", "0">>, <<"1", ".", "0", "0", "0">>, <<"a", "b", "c">>}}
    \cup {Segment("stdev", <<"0", ".", "1", "0", "0">>,
                  Encode(Line(StdevMarker, <<"0", ".", "1", "0", "0">>)))}
    \cup {Segment("bare", <<>>, Encode(MeanMarker))}
    \cup {Segment("text", <<>>, b) :
            b \in {Encode(<<"E9">>), Encode(<<"7", " ">>), Encode(Seconds)}}

\* The number of pieces of a captured output.
MaxSegments == 3

ParseInputs == UNION {[1..n -> Segments] : n \in 0..MaxSegments}

RECURSIVE Flatten(_)
Flatten(segs) ==
    IF segs = <<>> THEN <<>> ELSE Flatten(SubSeq(segs, 1, Len(segs) - 1)) \o segs[Len(segs)].bytes

InitParse == Idle("parse") /\ fin \in ParseInputs /\ fout = <<>>

\* Lines 158-173 on the output fin.
ParseOutput ==
    /\ pc = "parse"
    /\ fout = <<>>
    /\ LET output == Flatten(fin)
       IN  fout' = <<[meanText |-> getMeasurement(output, MeanMarker),
                      stdevText |-> getMeasurement(output, StdevMarker),
                      m |-> Measured(output),
                      row |-> Report(BaseTheia, Measured(output), Undefined).row]>>
    /\ UNCHANGED <<flowVars, fileVars, poolVars, sigint, fin>>

NextParse == ParseOutput

SpecParse == InitParse /\ [][NextParse]_vars

\* The longest package name and version tried.
MaxNameLen == 3
MaxVersionLen == 2

TextsOver(chars, n) == UNION {[1..k -> chars] : k \in 1..n}
PackageNames == TextsOver({"a", "@", ":"}, MaxNameLen)
PackageVersions == {v \in TextsOver({"1", "."}, MaxVersionLen) : v[1] = "1"}

InitQual ==
    /\ Idle("qualifier")
    /\ fin \in [name : PackageNames, version : PackageVersions]
    /\ fout = <<>>

\* Lines 136-138 for the package fin.
MakeQualifier ==
    /\ pc = "qualifier"
    /\ fout = <<>>
    /\ fout' = <<Qualifier(fin.name, fin.version)>>
    /\ UNCHANGED <<flowVars, fileVars, poolVars, sigint, fin>>

\* Lines 145-149 for that qualifier.
ParseQualifier ==
    /\ pc = "qualifier"
    /\ Len(fout) = 1
    /\ fout' = <<fout[1],
                 [name |-> QualifierName(fout[1]), version |-> QualifierVersion(fout[1]),
                  dependencies |-> SetDependency(BaseManifest, QualifierName(fout[1]),
                                                 QualifierVersion(fout[1]))]>>
    /\ UNCHANGED <<flowVars, fileVars, poolVars, sigint, fin>>

NextQual == MakeQualifier \/ ParseQualifier

SpecQual == InitQual /\ [][NextQual]_vars

----------------------------------------------------------------------------
(* Claims.                                                                 *)

Prepared == nBackupWrites > 0

\* C1: once the process has terminated after a run that took the backup,
\* the live manifest has its pre-run content, however the pending copies of
\* the base manifest interleave with the restore.
C1_LiveRestoredAtExit ==
    (pc = "terminated" /\ Prepared) => live = OrigManifest

\* The names whose entries differ between two manifests.
DiffNames(m1, m2) == {e[1] : e \in (m1 \ m2) \cup (m2 \ m1)}

\* C2: right after calculateExtension has written the manifest of a trial,
\* what it wrote differs from the base manifest in exactly one entry, that of
\* the extension of the trial.
C2_OneEntryDiffersFromBase ==
    pc = "build" =>
        /\ DiffNames(requireCache.content, BaseManifest) = {QualifierName(extensions[i])}
        /\ Entry(QualifierName(extensions[i]), QualifierVersion(extensions[i]))
               \in requireCache.content

\* C3: the write of the manifest of extension N+1 happens only when the
\* build and the measurement of extension N are over and every reset issued
\* so far has been carried out.
C3_MutationAfterResetCompleted ==
    [][(pc = "mutate" /\ pc' = "build" /\ i > 1)
          => (nBuilds >= i /\ nMeasures >= i - 1 /\ copyQueued = 0)]_vars

\* The rows that show numbers, by position.
NumberRows == {k \in 1..Len(rows) : rows[k].kind = "number"}
FirstNumberRow == CHOOSE f \in NumberRows : \A k \in NumberRows : f <= k

\* C4: with no base time on the command line, the mean of the first trial
\* that gives numbers is the baseline from then on, the row of that trial
\* shows a dash as delta, and every later row of numbers shows its mean minus
\* that first mean, to 3 decimals.
C4_FirstMeanIsBaseline ==
    (pc \notin {"parse", "qualifier"} /\ ~Truthy(args.baseTime)) =>
        IF NumberRows = {} THEN baseTime = Undefined
        ELSE /\ baseTime = parseFloat(rows[FirstNumberRow].mean)
             /\ rows[FirstNumberRow].diff = Dash
             /\ \A k \in NumberRows \ {FirstNumberRow} :
                    rows[k].diff = toFixed3(parseFloat(rows[k].mean).v
                                            - parseFloat(rows[FirstNumberRow].mean).v)

\* The baseline measurement failed, the first extension set the baseline (a
\* mean of 0) and the second one measured 2.5.
C4_Witness ==
    /\ ~Truthy(args.baseTime)
    /\ Len(rows) = 4
    /\ rows[2].kind = "error" /\ rows[2].label = BaseTheia
    /\ rows[3].kind = "number" /\ rows[3].diff = Dash
    /\ rows[4].kind = "number" /\ rows[4].diff = <<"2", ".", "5", "0", "0">>
    /\ baseTime = Num(0)

\* C5: started with --runs 1, the process ends with a non-zero status and
\* has touched no manifest file: no backup written, no restore, no deletion,
\* the live manifest as it was.
C5_RunsOneRejectedWithoutEffect ==
    (args.runs = Num(1000) /\ pc = "terminated") =>
        /\ exitCode # 0
        /\ live = OrigManifest
        /\ nBackupWrites = 0 /\ nRestores = 0 /\ nUnlinks = 0 /\ nMutations = 0

\* C6: after a build command has failed there is no further mutation,
\* build, measurement or row, and the process ends with a non-zero status.
C6_BuildFailureAborts ==
    /\ [][threw = "build" => (nMutations' = nMutations /\ nBuilds' = nBuilds
                              /\ nMeasures' = nMeasures /\ rows' = rows)]_vars
    /\ []((threw = "build" /\ pc = "terminated") => exitCode # 0)

\* The rows of the extension trials, in order.
RECURSIVE TrialRows(_)
TrialRows(rs) ==
    IF rs = <<>> THEN <<>>
    ELSE TrialRows(SubSeq(rs, 1, Len(rs) - 1))
         \o (IF rs[Len(rs)].kind \in {"number", "error"} /\ rs[Len(rs)].label # BaseTheia
             THEN <<rs[Len(rs)]>> ELSE <<>>)

\* C7: a trial whose mean or standard deviation is NaN prints exactly one
\* error row and leaves the baseline as it is, and the flow goes on; a sweep
\* in which nothing threw has mutated, built, measured and reported every
\* extension of the list, whatever the trials measured.
C7_NaNTrialIsLocal ==
    /\ [][(nMeasures' = nMeasures + 1 /\ (isNaN(measured'.mean) \/ isNaN(measured'.stdev)))
            => /\ rows' = Append(rows, rows'[Len(rows')])
               /\ rows'[Len(rows')].kind = "error"
               /\ baseTime' = baseTime
               /\ pc' \in {"enumerate", "reset"}]_vars
    /\ []((Prepared /\ threw = "none" /\ pc \in {"eventLoop", "processExit", "exiting", "terminated"})
            => /\ nMutations = Len(extensions)
               /\ nBuilds = Len(extensions) + 1
               /\ Len(TrialRows(rows)) = Len(extensions)
               /\ \A k \in 1..Len(extensions) : TrialRows(rows)[k].label = extensions[k])

\* The first extension measured NaN and the second one was reported with
\* numbers, in a sweep that ran to its end.
C7_Witness ==
    /\ pc = "terminated" /\ threw = "none"
    /\ Len(extensions) = 2
    /\ Len(TrialRows(rows)) = 2
    /\ TrialRows(rows)[1].kind = "error"
    /\ TrialRows(rows)[2].kind = "number"

\* C8: the name and the version parsed from the qualifier of a package are
\* the name and the version of the package, and they are what is written to
\* the dependencies.
C8_QualifierRoundTrip ==
    Len(fout) = 2 =>
        /\ fout[2].name = fin.name
        /\ fout[2].version = fin.version
        /\ Entry(fin.name, fin.version) \in fout[2].dependencies

IsNumericText(t) ==
    /\ DigitRun(t) >= 1
    /\ \/ DigitRun(t) = Len(t)
       \/ /\ t[DigitRun(t) + 1] = "."
          /\ DigitRun(SubSeq(t, DigitRun(t) + 2, Len(t))) = Len(t) - DigitRun(t) - 1

\* The values of the mean lines of an output, in order.
RECURSIVE MeanValues(_)
MeanValues(segs) ==
    IF segs = <<>> THEN <<>>
    ELSE MeanValues(SubSeq(segs, 1, Len(segs) - 1))
         \o (IF segs[Len(segs)].kind = "mean" THEN <<segs[Len(segs)].value>> ELSE <<>>)

\* The mean marker occurs more than once in the output, each time followed
\* by a number and the word seconds.
RepeatedMean(segs) ==
    /\ Len(MeanValues(segs)) >= 2
    /\ \A k \in 1..Len(segs) :
          /\ segs[k].kind # "bare"
          /\ segs[k].kind = "mean" => IsNumericText(segs[k].value)

\* C9: when the mean marker occurs more than once, each time followed by a
\* value and the word seconds, getMeasurement returns the value after the
\* last occurrence.
C9_LastOccurrenceWins ==
    (Len(fout) = 1 /\ RepeatedMean(fin))
        => fout[1].meanText = MeanValues(fin)[Len(MeanValues(fin))]

Absent(marker, output) == Occurrences(output, Encode(marker)) = {}

\* C10: when a marker is absent from the output, or the text taken after it
\* is not numeric, the parsed value is NaN and the row is an error row.
C10_AbsentOrNonNumericIsNaN ==
    Len(fout) = 1 =>
        /\ (Absent(MeanMarker, Flatten(fin)) \/ ~IsNumericText(fout[1].meanText))
              => (isNaN(fout[1].m.mean) /\ fout[1].row.kind = "error")
        /\ (Absent(StdevMarker, Flatten(fin)) \/ ~IsNumericText(fout[1].stdevText))
              => (isNaN(fout[1].m.stdev) /\ fout[1].row.kind = "error")

----------------------------------------------------------------------------
(* Cleanup, options and ordering.                                          *)

\* A step in which the 'exit' listener (lines 26-27, 33) runs cleanWorkspace.
ExitListenerStep == pc # "exiting" /\ pc' = "exiting"

\* C11: a cleanWorkspace that runs after the restore has been made (the
\* 'exit' listener after the SIGINT handler) finds no backup file, leaves the
\* live manifest and every file as they are, leaves the exit status 0, and
\* the process goes on to terminate.
C11_SecondCleanupIsHarmless ==
    /\ [][(nRestores >= 1 /\ ExitListenerStep)
            => (~backup.exists /\ live' = live /\ UNCHANGED fileVars /\ exitCode' = 0)]_vars
    /\ ((nRestores >= 1 /\ pc = "exiting") ~> (pc = "terminated"))

\* The SIGINT handler restored the manifest and the 'exit' listener has run
\* cleanWorkspace again.
C11_Witness ==
    /\ pc = "terminated" /\ sigint = "handled" /\ nRestores = 1 /\ nUnlinks = 1
    /\ ~backup.exists /\ exitCode = 0

\* A base time was given on the command line.
Supplied == args.baseTime.t = "number"

\* The main flow is over and no command failed.
SweepCompleted ==
    /\ pc \in {"settled", "eventLoop", "processExit", "exiting", "terminated"}
    /\ Prepared /\ threw = "none"

\* C12: with a base time given, no baseline is measured; the output is the
\* header, one row with the given base time and dashes, then one row per
\* extension in the order of the list, and a row of numbers shows its mean
\* minus the given base time, to 3 decimals.
C12_SuppliedBaseTimeRows ==
    (pc \notin {"parse", "qualifier"} /\ Supplied) =>
        /\ pc # "baseline" /\ nMeasures <= nMutations
        /\ \A k \in 1..Len(rows) : rows[k].label # BaseTheia
        /\ Len(rows) >= 1 => (rows[1].kind = "header" /\ Len(rows) >= 2)
        /\ Len(rows) >= 2 =>
              /\ rows[2].kind = "provided"
              /\ rows[2].mean = toFixed3(RoundDiv(args.baseTime.v, 10))
              /\ rows[2].stdev = Dash /\ rows[2].cv = Dash /\ rows[2].diff = Dash
        /\ \A k \in 3..Len(rows) :
              /\ rows[k].kind \in {"number", "error"}
              /\ rows[k].label = extensions[k - 2]
              /\ rows[k].kind = "number" =>
                    rows[k].diff = toFixed3(RoundDiv(10 * parseFloat(rows[k].mean).v
                                                     - args.baseTime.v, 10))
        /\ SweepCompleted => Len(rows) = 2 + Len(extensions)

\* The message of line 68 has been printed.
RunsMessagePrinted == \E k \in 1..Len(stderr) : stderr[k] = "--runs must be at least 2"

\* C13: every --runs below 2 ends the run with the message of line 68 before
\* the workspace is prepared, so that nothing is backed up, built or
\* measured; and a measurement is only ever started with runs >= 2.
C13_RunsBelowTwoAborts ==
    /\ (pc \notin {"start", "parse", "qualifier"} /\ args.runs.t = "number"
            /\ args.runs.v < 2000)
          => (RunsMessagePrinted /\ ~Prepared /\ nBuilds = 0 /\ nMeasures = 0)
    /\ nMeasures > 0 => (runs.t = "number" /\ runs.v >= 2000)

\* The dependency that the trial at hand is about.
CurrentEntry == Entry(QualifierName(extensions[i]), QualifierVersion(extensions[i]))

\* C14: when a build command is about to start, no copy of the base manifest
\* is pending; the initial build and the baseline measurement see the base
\* manifest, and the build and the measurement of an extension see a live
\* manifest that holds that extension.
C14_NoCopyPendingAtBuild ==
    /\ pc \in {"initialBuild", "build"} => copyQueued = 0
    /\ pc \in {"initialBuild", "baseline"} => live = BaseManifest
    /\ pc \in {"build", "measure"} => CurrentEntry \in live

\* C15: the backup file is written at most once in a run, before anything
\* is written to the live manifest; the live manifest is restored only from
\* a backup that this run has written, and the restore is followed by the
\* deletion of the backup file.
C15_BackupWrittenOnceBeforeLiveWrites ==
    /\ [](nBackupWrites <= 1)
    /\ [][(live' # live \/ nMutations' > nMutations \/ nRestores' > nRestores
                \/ copyQueued' < copyQueued)
            => Prepared]_vars
    /\ [][nRestores' > nRestores
            => (Prepared /\ live' = OrigManifest /\ nUnlinks' = nUnlinks + 1
                /\ ~backup'.exists)]_vars

====
